---- MODULE Spec2Model ----
(***************************************************************************)
(* Model of MarkovRanking.py: the SQLite datastore (DataModule) holding    *)
(* the tables `elements` and `relations`, and MarkovRatingSystem.feedLine, *)
(* which feeds one rated list into it.                                     *)
(*                                                                         *)
(* A table is the sequence of its rows in insertion order; both tables use *)
(* INTEGER PRIMARY KEY AUTOINCREMENT and no row is ever deleted, so a      *)
(* row's id is its position.  SQL NULL / Python None is NULL.              *)
(* Ratings are small integers, on which SQLite's REAL arithmetic is exact. *)
(***************************************************************************)
EXTENDS Integers, Sequences, FiniteSets, TLC

\* ---------------------------------------------------------------- bounds
MaxLen == 3         \* longest relationList fed
MaxCalls == 2       \* public calls (feedLine or a direct datastore call) per run

Names == {"a", "b", "c"}
Ratings == {-1, 2}

NULL == 0

RECURSIVE SeqsUpTo(_)
SeqsUpTo(n) == IF n = 0 THEN {<< >>}
               ELSE LET S == SeqsUpTo(n - 1)
                    IN  S \cup {Append(s, e) : s \in {t \in S : Len(t) = n - 1}, e \in Names}

Lists == SeqsUpTo(MaxLen)

VARIABLES
    elements,      \* table elements: row i = class (name), id i
    relations,     \* table relations: row i = [class, count, rating_sum, rating_sum_squares, parent_id], id i
    committed,     \* what the last commit made durable: [elements, relations]
    pc,            \* position of the caller: "idle", or inside feedLine: "outer" / "inner"
    rating,        \* feedLine's argument rating
    relationList,  \* feedLine's argument relationList
    xi,            \* index of x in the loop of line 241
    yi,            \* index of y in the loop of line 248
    ncalls,        \* public calls started so far
    fed,           \* history: the <<rating, relationList>> of every feedLine call that returned
    pre,           \* history: the store when the latest public call started
    boundaries,    \* history: the stores reached from the empty store by whole feedLine calls only
    last           \* history: the latest public call: [op, parent, child, raised, ret]

vars == << elements, relations, committed, pc, rating, relationList, xi, yi,
           ncalls, fed, pre, boundaries, last >>

Store == [elements |-> elements, relations |-> relations]

EmptyStore == [elements |-> << >>, relations |-> << >>]

\* A Python return value: None, or a number num/den.
None == [kind |-> "None", num |-> 0, den |-> 0]
Number(n, d) == [kind |-> "number", num |-> n, den |-> d]

NoCall == [op |-> "none", parent |-> "", child |-> "", raised |-> "none", ret |-> None]
CallOf(o, p, c, e, r) == [op |-> o, parent |-> p, child |-> c, raised |-> e, ret |-> r]

\* ------------------------------------------------------------ DataModule

\* create_tables: both tables dropped and created anew, then committed.
create_tables == EmptyStore

\* existsRootElement with the bug of a query without its WHERE clause: the
\* name is compared with the first row only.
existsRootElement_FirstRow(els, name) == Len(els) > 0 /\ els[1] = name

\* SELECT * FROM elements WHERE class=?  ... fetchone() is not None
existsRootElement(els, name) == \E k \in 1..Len(els) : els[k] = name

\* SELECT id FROM elements WHERE class=? ; None when there is no row
\* (class is UNIQUE, so at most one row matches).
getRootElementId(els, name) ==
    IF \E k \in 1..Len(els) : els[k] = name
    THEN CHOOSE k \in 1..Len(els) : els[k] = name
    ELSE NULL

\* The ids of the rows of relations JOIN elements ON relations.parent_id=elements.id
\* WHERE elements.class=parent.  A NULL parent_id joins with nothing.
ChildRowIds(els, rels, parent) ==
    {k \in 1..Len(rels) :
        /\ rels[k].parent_id # NULL
        /\ rels[k].parent_id \in 1..Len(els)
        /\ els[rels[k].parent_id] = parent}

\* getChildren: the (class, count, rating_sum, rating_sum_squares) of those rows.
getChildren(els, rels, parent) ==
    LET keep(row) == /\ row.parent_id # NULL
                     /\ row.parent_id \in 1..Len(els)
                     /\ els[row.parent_id] = parent
        rows == SelectSeq(rels, keep)
    IN  [k \in 1..Len(rows) |->
            << rows[k].class, rows[k].count, rows[k].rating_sum, rows[k].rating_sum_squares >>]

\* elements.class is UNIQUE: the INSERT of a name the table already holds
\* raises sqlite3.IntegrityError and inserts nothing.
addRootElementRaises(els, name) == \E k \in 1..Len(els) : els[k] = name

\* INSERT INTO elements VALUES (?,NULL)
addRootElement(els, name) == Append(els, name)

\* addRelatedElement with the bug of looking up the id of the child in place
\* of the parent's.
addRelatedElement_ChildAsParent(els, rels, parent, name, count, rtg) ==
    Append(rels, [class |-> name, count |-> count, rating_sum |-> rtg,
                  rating_sum_squares |-> rtg * rtg,
                  parent_id |-> getRootElementId(els, name)])

\* INSERT INTO relations VALUES (name, NULL, count, rating, rating*rating, parent_id):
\* the table relations has no uniqueness constraint, and foreign keys are not
\* enforced, so the insert always succeeds (parent_id may be NULL).
addRelatedElement(els, rels, parent, name, count, rtg) ==
    Append(rels, [class |-> name, count |-> count, rating_sum |-> rtg,
                  rating_sum_squares |-> rtg * rtg,
                  parent_id |-> getRootElementId(els, parent)])

\* getChildId: fetchone() of the rows joined as in getChildren whose class is
\* child.  The query has no ORDER BY: with several such rows any of them may
\* come first.  The set of possible results; {NULL} when there is no row.
getChildId(els, rels, parent, child) ==
    LET ids == {k \in ChildRowIds(els, rels, parent) : rels[k].class = child}
    IN  IF ids = {} THEN {NULL} ELSE ids

\* The UPDATE of incrementChild with the bug of calling updateChildRating
\* (lines 171-186) in its place: the count is left alone.
incrementChild_RatingOnly(els, rels, parent, child_id, increment, rtg) ==
    LET parent_id == getRootElementId(els, parent)
    IN  [k \in 1..Len(rels) |->
            IF /\ child_id # NULL /\ parent_id # NULL
               /\ k = child_id /\ rels[k].parent_id = parent_id
            THEN [rels[k] EXCEPT !.rating_sum = @ + rtg,
                                 !.rating_sum_squares = @ + rtg * rtg]
            ELSE rels[k]]

\* ... with the bug of updateChild (lines 137-153): the sum of squares is
\* set to rating*rating instead of being added to.
incrementChild_SquaresSet(els, rels, parent, child_id, increment, rtg) ==
    LET parent_id == getRootElementId(els, parent)
    IN  [k \in 1..Len(rels) |->
            IF /\ child_id # NULL /\ parent_id # NULL
               /\ k = child_id /\ rels[k].parent_id = parent_id
            THEN [rels[k] EXCEPT !.count = @ + increment,
                                 !.rating_sum = @ + rtg,
                                 !.rating_sum_squares = rtg * rtg]
            ELSE rels[k]]

\* ... with the bug of calling updateChildCount (lines 155-169) in its place.
incrementChild_CountOnly(els, rels, parent, child_id, increment, rtg) ==
    LET parent_id == getRootElementId(els, parent)
    IN  [k \in 1..Len(rels) |->
            IF /\ child_id # NULL /\ parent_id # NULL
               /\ k = child_id /\ rels[k].parent_id = parent_id
            THEN [rels[k] EXCEPT !.count = @ + increment]
            ELSE rels[k]]

\* ... with the bug of calling updateChild (lines 137-153) in its place: the
\* three fields are overwritten.
incrementChild_Absolute(els, rels, parent, child_id, increment, rtg) ==
    LET parent_id == getRootElementId(els, parent)
    IN  [k \in 1..Len(rels) |->
            IF /\ child_id # NULL /\ parent_id # NULL
               /\ k = child_id /\ rels[k].parent_id = parent_id
            THEN [rels[k] EXCEPT !.count = increment,
                                 !.rating_sum = rtg,
                                 !.rating_sum_squares = rtg * rtg]
            ELSE rels[k]]

\* ... with the bug of an UPDATE whose WHERE clause lacks id=?: every
\* relation of the parent is incremented.
incrementChild_AllOfParent(els, rels, parent, child_id, increment, rtg) ==
    LET parent_id == getRootElementId(els, parent)
    IN  [k \in 1..Len(rels) |->
            IF /\ parent_id # NULL
               /\ rels[k].parent_id = parent_id
            THEN [rels[k] EXCEPT !.count = @ + increment,
                                 !.rating_sum = @ + rtg,
                                 !.rating_sum_squares = @ + rtg * rtg]
            ELSE rels[k]]

\* incrementChild, given the child_id its getChildId fetched:
\* UPDATE relations SET count=count+?, rating_sum=rating_sum+?,
\* rating_sum_squares=rating_sum_squares+? WHERE id=? AND parent_id=?.
\* A NULL parameter compares equal to nothing: no row is updated, and
\* sqlite3 raises nothing for an UPDATE of no rows.
incrementChild(els, rels, parent, child_id, increment, rtg) ==
    LET parent_id == getRootElementId(els, parent)
    IN  [k \in 1..Len(rels) |->
            IF /\ child_id # NULL /\ parent_id # NULL
               /\ k = child_id /\ rels[k].parent_id = parent_id
            THEN [rels[k] EXCEPT !.count = @ + increment,
                                 !.rating_sum = @ + rtg,
                                 !.rating_sum_squares = @ + rtg * rtg]
            ELSE rels[k]]

\* updateChild, given the child_id its getChildId fetched:
\* UPDATE relations SET count=?, rating_sum=?, rating_sum_squares=?
\* WHERE id=? AND parent_id=?  (the three fields are overwritten).
updateChild(els, rels, parent, child_id, count, rtg) ==
    LET parent_id == getRootElementId(els, parent)
    IN  [k \in 1..Len(rels) |->
            IF /\ child_id # NULL /\ parent_id # NULL
               /\ k = child_id /\ rels[k].parent_id = parent_id
            THEN [rels[k] EXCEPT !.count = count,
                                 !.rating_sum = rtg,
                                 !.rating_sum_squares = rtg * rtg]
            ELSE rels[k]]

\* updateChildCount: UPDATE relations SET count=count+? WHERE id=? AND parent_id=?
updateChildCount(els, rels, parent, child_id, increment) ==
    LET parent_id == getRootElementId(els, parent)
    IN  [k \in 1..Len(rels) |->
            IF /\ child_id # NULL /\ parent_id # NULL
               /\ k = child_id /\ rels[k].parent_id = parent_id
            THEN [rels[k] EXCEPT !.count = @ + increment]
            ELSE rels[k]]

\* updateChildRating: UPDATE relations SET rating_sum=rating_sum+?,
\* rating_sum_squares=rating_sum_squares+? WHERE id=? AND parent_id=?
\* (the count is left alone).
updateChildRating(els, rels, parent, child_id, rtg) ==
    LET parent_id == getRootElementId(els, parent)
    IN  [k \in 1..Len(rels) |->
            IF /\ child_id # NULL /\ parent_id # NULL
               /\ k = child_id /\ rels[k].parent_id = parent_id
            THEN [rels[k] EXCEPT !.rating_sum = @ + rtg,
                                 !.rating_sum_squares = @ + rtg * rtg]
            ELSE rels[k]]

RECURSIVE SumOver(_, _, _)
SumOver(rels, ids, field) ==
    IF ids = {} THEN 0
    ELSE LET k == CHOOSE m \in ids : TRUE
         IN  rels[k][field] + SumOver(rels, ids \ {k}, field)

\* The row the query of computeRating leaves on the cursor:
\* SELECT sum(rating_sum)/sum(count) over the rows joined to element.
\* An aggregate over no rows is NULL, and so is a division by zero.
computeRatingQuery(els, rels, element) ==
    LET ids == ChildRowIds(els, rels, element)
        den == SumOver(rels, ids, "count")
    IN  IF ids = {} \/ den = 0 THEN None
        ELSE Number(SumOver(rels, ids, "rating_sum"), den)

\* computeRating executes the query and ends: it fetches nothing and has no
\* return statement, so the caller gets None.
computeRating(els, rels, element) ==
    LET onCursor == computeRatingQuery(els, rels, element)
    IN  None

\* commit with the bug of flushing the table elements only.
commit_ElementsOnly(st, durable) == [durable EXCEPT !.elements = st.elements]

\* conn.commit(): the open transaction, i.e. every statement executed since
\* the last commit, becomes durable.
commit(st, durable) == st

\* DataModule(database) with the bug of a create_tables without its DROP
\* statements (CREATE TABLE IF NOT EXISTS): the durable rows are kept.
DataModule_init_NoDrop(durable) == durable

\* DataModule(database): the store after __init__ has connected to a database
\* whose durable contents are `durable` and has run create_tables.
DataModule_init(durable) == create_tables

\* ---------------------------------------------------- MarkovRatingSystem

isRootElement(els, element) == existsRootElement(els, element)

\* isChildOf with the bug of testing the name against the rows themselves.
isChildOf_Rows(els, rels, element, relatedElement) ==
    LET childlist == getChildren(els, rels, element)
    IN  \E k \in 1..Len(childlist) : childlist[k] = << relatedElement >>

\* isChildOf with the bug of its two arguments swapped.
isChildOf_Reversed(els, rels, element, relatedElement) ==
    LET childlist == getChildren(els, rels, relatedElement)
    IN  \E k \in 1..Len(childlist) : childlist[k][1] = element

\* names = [x[0] for x in childlist]; relatedElement in names
isChildOf(els, rels, element, relatedElement) ==
    LET childlist == getChildren(els, rels, element)
    IN  \E k \in 1..Len(childlist) : childlist[k][1] = relatedElement

Idle == /\ pc' = "idle"
        /\ rating' = 0
        /\ relationList' = << >>
        /\ xi' = 0
        /\ yi' = 0

\* A caller invokes feedLine(r, l).
FeedLineCall(r, l) ==
    /\ pc = "idle"
    /\ ncalls < MaxCalls
    /\ pc' = "outer"
    /\ rating' = r
    /\ relationList' = l
    /\ xi' = 1
    /\ yi' = 0
    /\ ncalls' = ncalls + 1
    /\ pre' = Store
    /\ last' = CallOf("feedLine", "", "", "running", None)
    /\ UNCHANGED << elements, relations, committed, fed, boundaries >>

\* for x in relationList: if not self.isRootElement(x): self.addNewRootElement(x)
\* An INSERT that violates UNIQUE(class) raises out of feedLine.
FeedLineOuter ==
    /\ pc = "outer"
    /\ xi <= Len(relationList)
    /\ LET x == relationList[xi]
       IN  IF ~isRootElement(elements, x) /\ addRootElementRaises(elements, x)
           THEN /\ Idle
                /\ last' = CallOf("feedLine", "", "", "IntegrityError", None)
                /\ UNCHANGED << elements, relations, committed, ncalls, fed, pre,
                                boundaries >>
           ELSE /\ elements' = IF ~isRootElement(elements, x)
                               THEN addRootElement(elements, x)
                               ELSE elements
                /\ pc' = "inner"
                /\ yi' = 1
                /\ UNCHANGED << relations, committed, rating, relationList, xi, ncalls,
                                fed, pre, boundaries, last >>

\* The inner loop with the bug of comparing the positions of x and y in
\* place of their values.
FeedLineInner_ByIndex ==
    /\ pc = "inner"
    /\ yi <= Len(relationList)
    /\ LET x == relationList[xi]
           y == relationList[yi]
       IN  IF xi # yi
           THEN IF ~isChildOf(elements, relations, x, y)
                THEN relations' = addRelatedElement(elements, relations, x, y, 1, rating)
                ELSE \E child_id \in getChildId(elements, relations, x, y) :
                        relations' = incrementChild(elements, relations, x, child_id, 1, rating)
           ELSE relations' = relations
    /\ yi' = yi + 1
    /\ UNCHANGED << elements, committed, pc, rating, relationList, xi, ncalls,
                    fed, pre, boundaries, last >>

\* for y in relationList: if x != y: add the relation or increment it
FeedLineInner ==
    /\ pc = "inner"
    /\ yi <= Len(relationList)
    /\ LET x == relationList[xi]
           y == relationList[yi]
       IN  IF x # y
           THEN IF ~isChildOf(elements, relations, x, y)
                THEN relations' = addRelatedElement(elements, relations, x, y, 1, rating)
                ELSE \E child_id \in getChildId(elements, relations, x, y) :
                        relations' = incrementChild(elements, relations, x, child_id, 1, rating)
           ELSE relations' = relations
    /\ yi' = yi + 1
    /\ UNCHANGED << elements, committed, pc, rating, relationList, xi, ncalls,
                    fed, pre, boundaries, last >>

\* The inner loop is exhausted: the outer loop takes its next x.
FeedLineNext ==
    /\ pc = "inner"
    /\ yi > Len(relationList)
    /\ pc' = "outer"
    /\ xi' = xi + 1
    /\ yi' = 0
    /\ UNCHANGED << elements, relations, committed, rating, relationList, ncalls,
                    fed, pre, boundaries, last >>

\* The outer loop is exhausted: feedLine returns (it commits nothing).
FeedLineReturn ==
    /\ pc = "outer"
    /\ xi > Len(relationList)
    /\ Idle
    /\ fed' = Append(fed, << rating, relationList >>)
    /\ boundaries' = IF pre \in boundaries THEN boundaries \cup {Store} ELSE boundaries
    /\ last' = CallOf("feedLine", "", "", "none", None)
    /\ UNCHANGED << elements, relations, committed, ncalls, pre >>

\* The caller invokes commit() between two calls (MarkovRatingSystem.commit
\* or DataModule.commit, as test1 does after its feedLine calls).
Commit ==
    /\ pc = "idle"
    /\ committed' = commit(Store, committed)
    /\ UNCHANGED << elements, relations, pc, rating, relationList, xi, yi,
                    ncalls, fed, pre, boundaries, last >>

Init ==
    /\ elements = create_tables.elements
    /\ relations = create_tables.relations
    /\ committed = create_tables
    /\ pc = "idle"
    /\ rating = 0
    /\ relationList = << >>
    /\ xi = 0
    /\ yi = 0
    /\ ncalls = 0
    /\ fed = << >>
    /\ pre = EmptyStore
    /\ boundaries = {EmptyStore}
    /\ last = NoCall

Next ==
    \/ \E r \in Ratings, l \in Lists : FeedLineCall(r, l)
    \/ FeedLineOuter
    \/ FeedLineInner
    \/ FeedLineNext
    \/ FeedLineReturn
    \/ Commit

\* Ingestion as test1 drives it: feedLine calls and commits, nothing failing.
Spec == Init /\ [][Next]_vars

\* ------------------------------------------------------ a failing feedLine

\* The INSERT or UPDATE that feedLine is about to execute raises instead
\* (sqlite3.Error: a full disk, a locked database, an unsupported item type).
\* feedLine has no try/except and nothing calls rollback: the exception
\* reaches the caller and the statements executed so far stay in the open
\* transaction.
FeedLineRaise ==
    /\ \/ /\ pc = "outer"
          /\ xi <= Len(relationList)
          /\ ~isRootElement(elements, relationList[xi])
       \/ /\ pc = "inner"
          /\ yi <= Len(relationList)
          /\ relationList[xi] # relationList[yi]
    /\ Idle
    /\ last' = CallOf("feedLine", "", "", "StorageError", None)
    /\ UNCHANGED << elements, relations, committed, ncalls, fed, pre, boundaries >>

NextFail ==
    \/ Next
    \/ FeedLineRaise

\* Ingestion in which a feedLine call may fail part-way.
SpecFail == Init /\ [][NextFail]_vars

\* ------------------------------------------- direct calls of the mutators

\* MarkovRatingSystem.addRelatedElement(parent, childName, childCount, childRating)
CallAddRelatedElement(parent, childName, childCount, childRating) ==
    /\ pc = "idle"
    /\ ncalls < MaxCalls
    /\ relations' = addRelatedElement(elements, relations, parent, childName,
                                      childCount, childRating)
    /\ ncalls' = ncalls + 1
    /\ pre' = Store
    /\ last' = CallOf("addRelatedElement", parent, childName, "none", None)
    /\ UNCHANGED << elements, committed, pc, rating, relationList, xi, yi, fed, boundaries >>

\* MarkovRatingSystem.incrementRelatedBoth(parent, childName, increment, rating)
CallIncrementRelatedBoth(parent, childName, increment, rtg) ==
    /\ pc = "idle"
    /\ ncalls < MaxCalls
    /\ \E child_id \in getChildId(elements, relations, parent, childName) :
          relations' = incrementChild(elements, relations, parent, child_id, increment, rtg)
    /\ ncalls' = ncalls + 1
    /\ pre' = Store
    /\ last' = CallOf("incrementRelatedBoth", parent, childName, "none", None)
    /\ UNCHANGED << elements, committed, pc, rating, relationList, xi, yi, fed, boundaries >>

\* DataModule.computeRating(element)
CallComputeRating(element) ==
    /\ pc = "idle"
    /\ ncalls < MaxCalls
    /\ ncalls' = ncalls + 1
    /\ pre' = Store
    /\ last' = CallOf("computeRating", element, "", "none",
                      computeRating(elements, relations, element))
    /\ UNCHANGED << elements, relations, committed, pc, rating, relationList, xi, yi,
                    fed, boundaries >>

NextApi ==
    \/ Next
    \/ \E p \in Names, c \in Names, r \in Ratings : CallAddRelatedElement(p, c, 1, r)
    \/ \E p \in Names, c \in Names, r \in Ratings : CallIncrementRelatedBoth(p, c, 1, r)
    \/ \E e \in Names : CallComputeRating(e)

\* A caller that also uses the datastore's other public operations.
SpecApi == Init /\ [][NextApi]_vars

\* DataModule.updateChild(parent, child, count, rating)
CallUpdateChild(parent, child, count, rtg) ==
    /\ pc = "idle"
    /\ ncalls < MaxCalls
    /\ \E child_id \in getChildId(elements, relations, parent, child) :
          relations' = updateChild(elements, relations, parent, child_id, count, rtg)
    /\ ncalls' = ncalls + 1
    /\ pre' = Store
    /\ last' = CallOf("updateChild", parent, child, "none", None)
    /\ UNCHANGED << elements, committed, pc, rating, relationList, xi, yi, fed, boundaries >>

\* MarkovRatingSystem.incrementRelatedElementCount(parent, childName, increment)
CallIncrementRelatedElementCount(parent, childName, increment) ==
    /\ pc = "idle"
    /\ ncalls < MaxCalls
    /\ \E child_id \in getChildId(elements, relations, parent, childName) :
          relations' = updateChildCount(elements, relations, parent, child_id, increment)
    /\ ncalls' = ncalls + 1
    /\ pre' = Store
    /\ last' = CallOf("incrementRelatedElementCount", parent, childName, "none", None)
    /\ UNCHANGED << elements, committed, pc, rating, relationList, xi, yi, fed, boundaries >>

\* MarkovRatingSystem.updateRelatedElementRating(parent, childName, rating)
CallUpdateRelatedElementRating(parent, childName, rtg) ==
    /\ pc = "idle"
    /\ ncalls < MaxCalls
    /\ \E child_id \in getChildId(elements, relations, parent, childName) :
          relations' = updateChildRating(elements, relations, parent, child_id, rtg)
    /\ ncalls' = ncalls + 1
    /\ pre' = Store
    /\ last' = CallOf("updateRelatedElementRating", parent, childName, "none", None)
    /\ UNCHANGED << elements, committed, pc, rating, relationList, xi, yi, fed, boundaries >>

NextMut ==
    \/ NextApi
    \/ \E p \in Names, c \in Names, r \in Ratings : CallUpdateChild(p, c, 1, r)
    \/ \E p \in Names, c \in Names : CallIncrementRelatedElementCount(p, c, 1)
    \/ \E p \in Names, c \in Names, r \in Ratings : CallUpdateRelatedElementRating(p, c, r)

\* A caller that uses every public edge mutator.
SpecMut == Init /\ [][NextMut]_vars

\* ------------------------------------------------ constructing a DataModule

\* A new DataModule is constructed on the database (the program is started
\* again, or the handle is replaced).  The connection it replaces is closed,
\* which drops its uncommitted statements; __init__ connects and runs
\* create_tables, which ends with a commit.
Open ==
    /\ pc = "idle"
    /\ LET st == DataModule_init(committed)
       IN  /\ elements' = st.elements
           /\ relations' = st.relations
           /\ committed' = st
    /\ pre' = Store
    /\ last' = CallOf("DataModule", "", "", "none", None)
    /\ UNCHANGED << pc, rating, relationList, xi, yi, ncalls, fed, boundaries >>

NextOpen ==
    \/ Next
    \/ Open

\* Ingestion by a caller that may construct the DataModule anew.
SpecOpen == Init /\ [][NextOpen]_vars

\* ------------------------------------------------- feedLine as a function

\* One pass of the body of the inner loop (lines 250-255) on the store st.
\* Where getChildId has several rows to fetch from, the first is taken.
feedPair(st, rtg, x, y) ==
    IF x # y
    THEN IF ~isChildOf(st.elements, st.relations, x, y)
         THEN [st EXCEPT !.relations =
                  addRelatedElement(st.elements, st.relations, x, y, 1, rtg)]
         ELSE LET ids == getChildId(st.elements, st.relations, x, y)
                  child_id == CHOOSE c \in ids : \A d \in ids : c <= d
              IN  [st EXCEPT !.relations =
                      incrementChild(st.elements, st.relations, x, child_id, 1, rtg)]
    ELSE st

\* The inner loop (line 248) from position j on, for x = l[i].
RECURSIVE feedInner(_, _, _, _, _)
feedInner(st, rtg, l, i, j) ==
    IF j > Len(l) THEN st
    ELSE feedInner(feedPair(st, rtg, l[i], l[j]), rtg, l, i, j + 1)

\* The outer loop (line 241) from position i on.
RECURSIVE feedOuter(_, _, _, _)
feedOuter(st, rtg, l, i) ==
    IF i > Len(l) THEN st
    ELSE LET reg == IF ~isRootElement(st.elements, l[i])
                    THEN [st EXCEPT !.elements = addRootElement(st.elements, l[i])]
                    ELSE st
         IN  feedOuter(feedInner(reg, rtg, l, i, 1), rtg, l, i + 1)

\* The store a whole feedLine(rtg, l) call leaves, started on the store st.
feedLine(st, rtg, l) == feedOuter(st, rtg, l, 1)

\* ================================================================ claims

\* occ_S(n): the number of occurrences of n in the list l.
occ(l, n) == Cardinality({k \in 1..Len(l) : l[k] = n})

Pow(r, p) == IF p = 0 THEN 1 ELSE IF p = 1 THEN r ELSE r * r

\* The sum over the first k fed sequences S of rating_S^p * occ_S(x) * occ_S(y).
RECURSIVE SumFed(_, _, _, _)
SumFed(k, x, y, p) ==
    IF k = 0 THEN 0
    ELSE Pow(fed[k][1], p) * occ(fed[k][2], x) * occ(fed[k][2], y)
         + SumFed(k - 1, x, y, p)

CoOccur(x, y) == \E k \in 1..Len(fed) : occ(fed[k][2], x) > 0 /\ occ(fed[k][2], y) > 0

\* The ids of the edge records of the ordered pair (x, y).
EdgeIds(x, y) == {k \in ChildRowIds(elements, relations, x) : relations[k].class = y}

Distinct(l) == \A k, m \in 1..Len(l) : k # m => l[k] # l[m]

\* C1: after any sequence of feedLine calls on the empty store, for x # y the
\* edge (x,y) exists iff some fed sequence holds both x and y, and its count
\* is the sum over the fed sequences S of occ_S(x) * occ_S(y).
C1_CountIsCoOccurrence ==
    pc = "idle" =>
        \A x \in Names, y \in Names :
            x # y =>
                /\ (EdgeIds(x, y) # {}) <=> CoOccur(x, y)
                /\ \A k \in EdgeIds(x, y) :
                      relations[k].count = SumFed(Len(fed), x, y, 0)

\* C1 witness: two sequences fed, one with a repeated item, and an edge
\* counting three co-occurrences.
C1_Witness ==
    /\ pc = "idle"
    /\ Len(fed) = 2
    /\ \E m \in 1..2 : ~Distinct(fed[m][2])
    /\ \E x \in Names, y \in Names :
          x # y /\ \E k \in EdgeIds(x, y) : relations[k].count = 3

\* C2: after any sequence of feedLine calls every edge (x,y) has ratingSum =
\* sum of rating_S * occ_S(x) * occ_S(y) and ratingSumSquares = sum of
\* rating_S^2 * occ_S(x) * occ_S(y); and one sequence of n pairwise-distinct
\* items with rating r fed into the empty store yields exactly n*(n-1) edges,
\* each (1, r, r^2).
C2_SumsAreAccumulated ==
    pc = "idle" =>
        /\ \A x \in Names, y \in Names :
              x # y =>
                 \A k \in EdgeIds(x, y) :
                    /\ relations[k].rating_sum = SumFed(Len(fed), x, y, 1)
                    /\ relations[k].rating_sum_squares = SumFed(Len(fed), x, y, 2)
        /\ (Len(fed) = 1 /\ Distinct(fed[1][2])) =>
              LET r == fed[1][1]
                  n == Len(fed[1][2])
              IN  /\ Len(relations) = n * (n - 1)
                  /\ \A k \in 1..Len(relations) :
                        /\ relations[k].count = 1
                        /\ relations[k].rating_sum = r
                        /\ relations[k].rating_sum_squares = r * r

\* C2 witness: an edge fed once with rating -1 and once with rating 2.
C2_Witness ==
    /\ pc = "idle"
    /\ \E k \in 1..Len(relations) :
          /\ relations[k].count = 2
          /\ relations[k].rating_sum = 1
          /\ relations[k].rating_sum_squares = 5

\* C3: in every state reached by feedLine calls the table relations holds at
\* most one record per ordered (parent, child) pair.
C3_OneEdgePerPair ==
    \A k, m \in 1..Len(relations) :
        (relations[k].parent_id = relations[m].parent_id
            /\ relations[k].class = relations[m].class) => k = m

\* C3 witness: a pair met four times (a repeated item, a repeated sequence)
\* is still one record.
C3_Witness ==
    /\ \E k \in 1..Len(relations) : relations[k].count = 4
    /\ \E m \in 1..Len(fed) : ~Distinct(fed[m][2])

\* C4: the committed contents of the store are always the result of applying
\* a whole number of fed sequences.
C4_CommittedIsWhole == committed \in boundaries

\* C5 as stated: whenever feedLine has returned, none of its mutations is
\* still uncommitted.
C5_ReturnedIsCommitted == (pc = "idle" /\ last.op = "feedLine") => committed = Store

\* C5 amended: no step of feedLine commits; the durable contents change only
\* by the caller's commit(), which flushes every mutation made since the
\* previous commit, of however many sequences.
C5_CommitIsTheCallers ==
    [][ /\ (pc # "idle" \/ pc' # "idle") => committed' = committed
        /\ (committed' # committed) => (committed' = Store /\ UNCHANGED Store) ]_vars

\* C5 witness: two sequences fed and returned, their mutations not committed.
C5_Witness ==
    /\ pc = "idle"
    /\ Len(fed) = 2
    /\ relations # << >>
    /\ committed = EmptyStore

\* C6: when feedLine fails part-way, the mutations applied so far for that
\* sequence are rolled back: the store is what it was before the call.
C6_FailureRollsBack ==
    (last.op = "feedLine" /\ last.raised = "StorageError") => Store = pre

\* C7: computeRating(e) returns sum(ratingSum)/sum(count) over the out-edges
\* of e when e has one, and a no-data result otherwise.
C7_MeanRatingReturned ==
    last.op = "computeRating" =>
        /\ last.raised = "none"
        /\ last.ret =
              LET ids == ChildRowIds(elements, relations, last.parent)
              IN  IF ids = {} THEN None
                  ELSE Number(SumOver(relations, ids, "rating_sum"),
                              SumOver(relations, ids, "count"))

Doubled(rels) ==
    [k \in 1..Len(rels) |->
        [rels[k] EXCEPT !.count = 2 * @, !.rating_sum = 2 * @,
                        !.rating_sum_squares = 2 * @]]

\* C8: a sequence S fed once into the empty store and then fed again leaves
\* every edge with twice its count, ratingSum and ratingSumSquares, and
\* creates no edge and no element.
C8_ReplayDoubles ==
    (pc = "idle" /\ Len(fed) = 2 /\ ncalls = 2 /\ fed[1] = fed[2]) =>
        /\ elements = pre.elements
        /\ relations = Doubled(pre.relations)

\* C8 witness: a replayed sequence with a repeated item.
C8_Witness ==
    /\ pc = "idle" /\ Len(fed) = 2 /\ ncalls = 2 /\ fed[1] = fed[2]
    /\ ~Distinct(fed[1][2])
    /\ \E k \in 1..Len(relations) : relations[k].count = 4

PreEdgeIds(x, y) ==
    {k \in ChildRowIds(pre.elements, pre.relations, x) : pre.relations[k].class = y}

\* C9: addRelatedElement for a pair that already has an edge fails with a
\* DuplicateEdgeError and leaves the ledger unchanged, so that no calls of it
\* produce two records for one ordered pair.
C9_DuplicateEdgeRefused ==
    /\ (last.op = "addRelatedElement" /\ PreEdgeIds(last.parent, last.child) # {}) =>
          (last.raised = "DuplicateEdgeError" /\ relations = pre.relations)
    /\ \A x \in Names, y \in Names : Cardinality(EdgeIds(x, y)) <= 1

\* C10: incrementRelatedBoth for a pair that has no edge, or whose parent is
\* not registered, fails with a NotFoundError and changes nothing.
C10_IncrementAbsentRefused ==
    (last.op = "incrementRelatedBoth" /\ PreEdgeIds(last.parent, last.child) = {}) =>
        (last.raised = "NotFoundError" /\ Store = pre)

\* C11: in every state reached by feedLine calls no edge (x,x) exists, even
\* when x occurs several times in a fed sequence.
C11_NoSelfPair == \A x \in Names : EdgeIds(x, x) = {}

\* C11 witness: a sequence with a repeated item has been fed and its pairs
\* processed twice over.
C11_Witness ==
    /\ pc = "idle"
    /\ Len(fed) = 1
    /\ ~Distinct(fed[1][2])
    /\ \E k \in 1..Len(relations) : relations[k].count = 2

\* C12: in every state reached by feedLine calls, every edge satisfies
\* count * ratingSumSquares >= ratingSum * ratingSum.
C12_CauchySchwarz ==
    \A k \in 1..Len(relations) :
        relations[k].count * relations[k].rating_sum_squares
            >= relations[k].rating_sum * relations[k].rating_sum

\* C12 witness: an edge fed twice with rating -1 and once with rating 2.
C12_Witness ==
    \E k \in 1..Len(relations) :
        /\ relations[k].count = 3
        /\ relations[k].rating_sum = 0
        /\ relations[k].rating_sum_squares = 6

\* C13: across feedLine calls an edge is only created (with count 1) or
\* incremented (count + 1, ratingSum + rating, ratingSumSquares + rating^2):
\* it is never removed, its count is > 0 and never decreases, and its fields
\* are never overwritten.
C13_EdgeLifecycle ==
    [][ /\ Len(relations') >= Len(relations)
        /\ \A k \in 1..Len(relations) :
              /\ relations'[k].class = relations[k].class
              /\ relations'[k].parent_id = relations[k].parent_id
              /\ \/ relations'[k] = relations[k]
                 \/ /\ relations'[k].count = relations[k].count + 1
                    /\ relations'[k].rating_sum = relations[k].rating_sum + rating
                    /\ relations'[k].rating_sum_squares =
                          relations[k].rating_sum_squares + rating * rating
        /\ \A k \in (Len(relations) + 1)..Len(relations') : relations'[k].count = 1
        /\ \A k \in 1..Len(relations') : relations'[k].count > 0 ]_vars

\* C13 witness: within one call an existing edge has been incremented and a
\* new edge created.
C13_Witness ==
    /\ Len(relations) > Len(pre.relations)
    /\ \E k \in 1..Len(pre.relations) : relations[k].count > pre.relations[k].count

Registered(els, name) == \E k \in 1..Len(els) : els[k] = name

\* C14: element registration is a get-or-create: a name met for the first
\* time gets the next id, a known name neither fails nor gets another
\* record; no record is deleted or renumbered, no name has two records, and
\* every name of a fed sequence is registered when feedLine returns.
C14_GetOrCreate ==
    [][ /\ Len(elements') >= Len(elements)
        /\ \A k \in 1..Len(elements) : elements'[k] = elements[k]
        /\ Distinct(elements')
        /\ last'.raised # "IntegrityError"
        /\ (pc = "outer" /\ xi <= Len(relationList)) =>
              IF Registered(elements, relationList[xi])
              THEN elements' = elements
              ELSE /\ elements' = Append(elements, relationList[xi])
                   /\ getRootElementId(elements', relationList[xi]) = Len(elements) + 1
        /\ pc # "outer" => elements' = elements
        /\ pc' = "idle" =>
              \A m \in 1..Len(fed') : \A k \in 1..Len(fed'[m][2]) :
                  Registered(elements', fed'[m][2][k]) ]_vars

\* C14 witness: a name known from an earlier sequence, repeated within the
\* second one, has been met again without a new record.
C14_Witness ==
    /\ pc = "inner"
    /\ Len(fed) = 1
    /\ xi = 2
    /\ relationList[1] = relationList[2]
    /\ elements = pre.elements
    /\ Len(elements) >= 2

\* C15: after every completed feedLine call, for x # y the edge (x,y) exists
\* iff the edge (y,x) exists, and the two are distinct records with the same
\* count, ratingSum and ratingSumSquares.
C15_Symmetric ==
    pc = "idle" =>
        \A x \in Names, y \in Names :
            x # y =>
                /\ (EdgeIds(x, y) # {}) <=> (EdgeIds(y, x) # {})
                /\ \A k \in EdgeIds(x, y), m \in EdgeIds(y, x) :
                      /\ k # m
                      /\ relations[k].count = relations[m].count
                      /\ relations[k].rating_sum = relations[m].rating_sum
                      /\ relations[k].rating_sum_squares = relations[m].rating_sum_squares

\* C15 witness: two sequences fed, and a pair of opposite edges each met twice.
C15_Witness ==
    /\ pc = "idle"
    /\ Len(fed) = 2
    /\ \E x \in Names, y \in Names :
          /\ x # y
          /\ \E k \in EdgeIds(x, y), m \in EdgeIds(y, x) :
                relations[k].count = 2 /\ relations[m].count = 2

\* C16 as stated: every item of the sequence is registered before any pair
\* update of that sequence, so that when an edge (x,y) is created or
\* incremented both x and y are registered elements.
C16_RegisteredBeforePairs ==
    [][ relations' # relations =>
            \A k \in 1..Len(relationList) : Registered(elements, relationList[k]) ]_vars

\* C16 amended: registration is interleaved with the pair updates: an item x
\* is registered just before the pairs with x as parent are processed.  When
\* an edge (x,y) is created or incremented, x and every item before it in the
\* sequence are registered and the edge's parent_id is the id of x; y need
\* not be registered yet.  When feedLine returns, the parent and the child
\* of every edge are registered.
C16_ParentRegisteredAtUpdate ==
    [][ /\ relations' # relations =>
              /\ pc = "inner"
              /\ \A k \in 1..xi : Registered(elements, relationList[k])
              /\ LET parent_id == getRootElementId(elements, relationList[xi])
                 IN  /\ parent_id \in 1..Len(elements)
                     /\ \A k \in 1..Len(relations') :
                           (k > Len(relations) \/ relations'[k] # relations[k]) =>
                               relations'[k].parent_id = parent_id
        /\ pc' = "idle" =>
              \A k \in 1..Len(relations') :
                  /\ relations'[k].parent_id \in 1..Len(elements')
                  /\ Registered(elements', relations'[k].class) ]_vars

\* C16 witness: an edge exists whose child is not a registered element yet.
C16_Witness ==
    /\ pc = "inner"
    /\ \E k \in 1..Len(relations) :
          /\ relations[k].parent_id \in 1..Len(elements)
          /\ ~Registered(elements, relations[k].class)

\* C17: every public edge mutator, called with a positive count and a
\* bounded integer rating, leaves every edge with count > 0 and
\* count * ratingSumSquares >= ratingSum * ratingSum.
C17_MutatorsKeepCauchySchwarz ==
    \A k \in 1..Len(relations) :
        /\ relations[k].count > 0
        /\ relations[k].rating_sum * relations[k].rating_sum
              <= relations[k].count * relations[k].rating_sum_squares

\* The relationList of the latest feedLine call (running or returned).
LatestList ==
    IF pc # "idle" THEN relationList
    ELSE IF fed = << >> THEN << >> ELSE fed[Len(fed)][2]

\* C18: feedLine(rating, items) changes or creates only edges whose parent
\* and child both occur in items and adds only elements whose names occur
\* in items; every other edge and every registered element is unchanged,
\* and a sequence with fewer than two distinct names changes no edge.
C18_Frame ==
    LET l == LatestList
    IN  /\ Len(elements) >= Len(pre.elements)
        /\ \A k \in 1..Len(pre.elements) : elements[k] = pre.elements[k]
        /\ \A k \in (Len(pre.elements) + 1)..Len(elements) : occ(l, elements[k]) > 0
        /\ Len(relations) >= Len(pre.relations)
        /\ \A k \in 1..Len(relations) :
              (k > Len(pre.relations) \/ relations[k] # pre.relations[k]) =>
                  /\ occ(l, relations[k].class) > 0
                  /\ relations[k].parent_id \in 1..Len(elements)
                  /\ occ(l, elements[relations[k].parent_id]) > 0
        /\ Cardinality({l[k] : k \in 1..Len(l)}) < 2 => relations = pre.relations

\* C18 witness: a returned call has changed one edge and left another as it was.
C18_Witness ==
    /\ pc = "idle"
    /\ Len(fed) = 2
    /\ \E k, m \in 1..Len(pre.relations) :
          /\ relations[k] = pre.relations[k]
          /\ relations[m] # pre.relations[m]

\* The edges of a store keyed by names: (parent name, child name, count,
\* ratingSum, ratingSumSquares), the surrogate ids left out.
KeyedEdges(st) ==
    {<< st.elements[st.relations[k].parent_id], st.relations[k].class,
        st.relations[k].count, st.relations[k].rating_sum,
        st.relations[k].rating_sum_squares >> :
        k \in {m \in 1..Len(st.relations) :
                  st.relations[m].parent_id \in 1..Len(st.elements)}}

Perm(n) == {f \in [1..n -> 1..n] : \A k, m \in 1..n : k # m => f[k] # f[m]}

\* The fed sequence e with its items in every order.
Variants(e) == {<< e[1], [k \in 1..Len(e[2]) |-> e[2][f[k]]] >> : f \in Perm(Len(e[2]))}

\* The first k fed sequences, each with its items in every order.
RECURSIVE Histories(_)
Histories(k) ==
    IF k = 0 THEN {<< >>}
    ELSE {Append(h, v) : h \in Histories(k - 1), v \in Variants(fed[k])}

\* The store after feeding the sequences of h, from position k on, into st.
RECURSIVE FeedAll(_, _, _)
FeedAll(st, h, k) ==
    IF k > Len(h) THEN st
    ELSE FeedAll(feedLine(st, h[k][1], h[k][2]), h, k + 1)

\* C19: the edges keyed by (parent name, child name), with their count,
\* ratingSum and ratingSumSquares, are the same for every order in which the
\* fed sequences are fed into the empty store and for every order of the
\* items inside each sequence.
C19_OrderIndependent ==
    pc = "idle" =>
        \A h \in Histories(Len(fed)), o \in Perm(Len(fed)) :
            KeyedEdges(FeedAll(EmptyStore, [k \in 1..Len(fed) |-> h[o[k]]], 1))
                = KeyedEdges(Store)

\* C19 witness: two different sequences with different ratings, sharing a
\* pair of items that the second lists in the opposite order.
C19_Witness ==
    /\ pc = "idle"
    /\ Len(fed) = 2
    /\ fed[1][1] # fed[2][1]
    /\ Len(fed[1][2]) = 3
    /\ Len(fed[2][2]) = 2
    /\ fed[1][2][1] = fed[2][2][2]
    /\ fed[1][2][2] = fed[2][2][1]
    /\ fed[1][2][1] # fed[1][2][2]

\* C20: constructing a DataModule leaves the element registry and the
\* relation ledger empty, durably, whatever the database held, committed or
\* not, and ids start again at 1; short of that, no feedLine or commit step
\* removes or renumbers an element or an edge, in the store or in its
\* durable contents.
C20_OpenResets ==
    [][ IF last'.op = "DataModule"
        THEN /\ elements' = << >>
             /\ relations' = << >>
             /\ committed' = EmptyStore
        ELSE /\ Len(elements') >= Len(elements)
             /\ \A k \in 1..Len(elements) : elements'[k] = elements[k]
             /\ (elements = << >> /\ elements' # << >>) =>
                   getRootElementId(elements', elements'[1]) = 1
             /\ Len(relations') >= Len(relations)
             /\ \A k \in 1..Len(relations) :
                   /\ relations'[k].class = relations[k].class
                   /\ relations'[k].parent_id = relations[k].parent_id
             /\ committed' \in {committed, Store} ]_vars

\* C20 witness: a DataModule has just been constructed on a database into
\* which two sequences had been fed.
C20_Witness ==
    /\ last.op = "DataModule"
    /\ Len(fed) = 2
    /\ Len(pre.relations) > 2
    /\ Store = EmptyStore
    /\ committed = EmptyStore
====
